---- MODULE Spec2Model ----
(***************************************************************************)
(* ConversaFlui API (main.py): the conversion endpoint                     *)
(* POST /audio/convert-to-mp3 and the encoding endpoint                    *)
(* POST /audio/encode-base64, with the filesystem they work on.            *)
(*                                                                         *)
(* Strings the code inspects character by character (URLs, file names,     *)
(* content types, Base64 text) are sequences of one-character strings.     *)
(***************************************************************************)
EXTENDS Integers, Sequences, FiniteSets, TLC

(* ------------------------------------------------------------------ *)
(* Bounds                                                              *)
(* ------------------------------------------------------------------ *)

\* Number of conversion requests the serving layer handles.
NumReqs == 2

\* Longest upload body, in bytes.
MaxLen == 3

Reqs == 1..NumReqs

(* ------------------------------------------------------------------ *)
(* Python values                                                       *)
(* ------------------------------------------------------------------ *)

\* An optional string: None, or a string (dict.get, headers.get, content_type).
None == [some |-> FALSE, val |-> <<>>]

Some(s) == [some |-> TRUE, val |-> s]

\* Python truthiness of an optional string: None and "" are falsy.
Truthy(o) == o.some /\ o.val # <<>>

\* Largest index of character c in s, 0 when absent (str.rfind, 1-based).
RFind(s, c) ==
  IF \E i \in 1..Len(s) : s[i] = c
  THEN CHOOSE i \in 1..Len(s) : s[i] = c /\ \A j \in (i+1)..Len(s) : s[j] # c
  ELSE 0

\* Smallest index of a character of set cs in s, Len(s)+1 when absent.
FindAny(s, cs) ==
  IF \E i \in 1..Len(s) : s[i] \in cs
  THEN CHOOSE i \in 1..Len(s) : s[i] \in cs /\ \A j \in 1..(i-1) : s[j] \notin cs
  ELSE Len(s) + 1

\* s[i:] of Python, with the 1-based index of the first character kept.
From(s, i) == SubSeq(s, i, Len(s))

\* s[:i] of Python, with the 1-based index of the first character dropped.
Upto(s, i) == SubSeq(s, 1, i - 1)

\* str.startswith
StartsWith(s, prefix) ==
  Len(s) >= Len(prefix) /\ SubSeq(s, 1, Len(prefix)) = prefix

Letters ==
  {"a","b","c","d","e","f","g","h","i","j","k","l","m",
   "n","o","p","q","r","s","t","u","v","w","x","y","z"}

\* The characters urlsplit accepts in a scheme.
SchemeChars ==
  Letters \cup {"0","1","2","3","4","5","6","7","8","9","+","-","."}

\* requests.utils.urlparse(url).path: the scheme up to ':', the network
\* location after '//', the fragment after '#', the query after '?' and the
\* parameters after ';' in the last segment are split off.
UrlPath(url) ==
  LET colon    == FindAny(url, {":"})
      hasSch   == colon > 1 /\ colon <= Len(url)
                    /\ url[1] \in Letters
                    /\ \A i \in 1..(colon-1) : url[i] \in SchemeChars
      rest     == IF hasSch THEN From(url, colon + 1) ELSE url
      afterNet == IF StartsWith(rest, <<"/", "/">>)
                  THEN LET r2 == From(rest, 3) IN From(r2, FindAny(r2, {"/", "?", "#"}))
                  ELSE rest
      noFrag   == Upto(afterNet, FindAny(afterNet, {"#"}))
      noQuery  == Upto(noFrag, FindAny(noFrag, {"?"}))
      slash    == RFind(noQuery, "/")
      lastSeg  == From(noQuery, slash + 1)
      semi     == FindAny(lastSeg, {";"})
  IN  Upto(noQuery, slash + semi)

\* os.path.basename: what follows the last '/'.
BaseName(p) == From(p, RFind(p, "/") + 1)

\* os.path.splitext(p)[0] for a name without '/': the extension starts at the
\* last '.', unless only dots precede it.
SplitExtRoot(p) ==
  LET dot == RFind(p, ".")
  IN  IF dot > 0 /\ \E i \in 1..(dot-1) : p[i] # "."
      THEN Upto(p, dot)
      ELSE p

(* ------------------------------------------------------------------ *)
(* File names and paths                                                *)
(* ------------------------------------------------------------------ *)

\* "audio_download"
DefaultBaseName ==
  <<"a","u","d","i","o","_","d","o","w","n","l","o","a","d">>

\* "_input"
InputSuffix == <<"_","i","n","p","u","t">>

\* "_output.mp3"
OutputSuffix == <<"_","o","u","t","p","u","t",".","m","p","3">>

\* tempfile.gettempdir(): the shared temp area is directory 0; the scoped
\* directories below it are named by positive numbers.
SharedTmp == 0

\* os.path.join(dir, name)
Join(d, n) == [dir |-> d, name |-> n]

\* The value of a path variable that is not bound yet.
NoPath == [dir |-> -1, name |-> <<>>]

\* mimetypes.guess_extension on the content types the HEAD request may give;
\* a type the table does not know maps to None.
GuessExtension(ct) ==
  CASE ct = "audio/x-wav"  -> Some(<<".", "w", "a", "v">>)
    [] ct = "audio/mpeg"   -> Some(<<".", "m", "p", "3">>)
    [] OTHER               -> None

(* ------------------------------------------------------------------ *)
(* Filesystem: a function from the paths of the existing files to     *)
(* their content                                                       *)
(* ------------------------------------------------------------------ *)

NoFiles == [p \in {} |-> 0]

Exists(fs, p) == p \in DOMAIN fs

\* open(p, 'wb') ... write: p now holds c, whatever it held.
WriteFile(fs, p, c) ==
  [q \in (DOMAIN fs) \cup {p} |-> IF q = p THEN c ELSE fs[q]]

\* os.rename(a, b), a existing.
RenameFile(fs, a, b) ==
  [q \in ((DOMAIN fs) \ {a}) \cup {b} |-> IF q = b THEN fs[a] ELSE fs[q]]

\* Removal of directory d with everything in it.
RmTree(fs, d) ==
  [q \in {x \in DOMAIN fs : x.dir # d} |-> fs[q]]

\* Content of files: the bytes downloaded by request r, a truncated file
\* left by a failed write of request r, the MP3 transcoded from the download
\* of request r.
Raw(r)     == [kind |-> "raw", by |-> r]
Partial(r) == [kind |-> "partial", by |-> r]
Mp3(r)     == [kind |-> "mp3", by |-> r]
NoContent  == [kind |-> "none", by |-> 0]

(* ------------------------------------------------------------------ *)
(* State                                                               *)
(* ------------------------------------------------------------------ *)

VARIABLES
  pc,                \* position of each conversion request
  payload,           \* JSON body of each conversion request
  input_file_path,   \* local of convert_audio_to_mp3
  output_file_path,  \* local of convert_audio_to_mp3
  final_output_path, \* path of the FileResponse returned
  status,            \* HTTP status answered, 0 while there is none
  body,              \* content the client received
  dirs,              \* the scoped temporary directories that exist
  files,             \* the filesystem
  log,               \* what each request has done so far, in order
  upc,               \* position of the upload request
  audio_file,        \* the UploadFile of the upload request
  contents,          \* local of encode_audio_to_base64, None while unbound
  ustatus,           \* HTTP status answered to the upload, 0 while none
  base64_string,     \* field of the JSON answered to the upload
  reads,             \* calls of audio_file.read()
  closes             \* calls of audio_file.close()

convVars ==
  <<pc, payload, input_file_path, output_file_path, final_output_path,
    status, body, dirs, files, log>>

encVars == <<upc, audio_file, contents, ustatus, base64_string, reads, closes>>

vars == <<convVars, encVars>>

(* ------------------------------------------------------------------ *)
(* The requests the clients may send                                   *)
(* ------------------------------------------------------------------ *)

\* "h://s/d/a.w?q"
UrlA == <<"h",":","/","/","s","/","d","/","a",".","w","?","q">>

\* "h://s/": no file name in the path
UrlNoName == <<"h",":","/","/","s","/">>

\* The JSON bodies: a dict with or without the key "audio_url".
Payloads ==
  {[has |-> FALSE, audio_url |-> <<>>]}
    \cup {[has |-> TRUE, audio_url |-> u] : u \in {<<>>, UrlA, UrlNoName}}

\* payload.get("audio_url")
PayloadGet(p) == IF p.has THEN Some(p.audio_url) ELSE None

\* tempfile.TemporaryDirectory(): mkdtemp gives a directory no other
\* request has; it is named after the request that created it.
TempDirOf(r) == r

\* Lines 103-107: the base name derived from the URL.
base_name(url) ==
  LET original_filename == BaseName(UrlPath(url))
      root == SplitExtRoot(original_filename)
  IN  IF root = <<>> THEN DefaultBaseName ELSE root

Append1(l, r, e) == [l EXCEPT ![r] = Append(@, e)]

(* ------------------------------------------------------------------ *)
(* Helper functions of main.py                                         *)
(* ------------------------------------------------------------------ *)

\* What requests.get and the writing of the destination may do.
DownloadOutcomes == {"ok", "neterr", "status", "ioerr"}

\* download_file with "return True" in the handler of unexpected exceptions.
download_file_m(outcome, fs, destination, r) ==
  CASE outcome = "ok"    -> [ret |-> TRUE,  fs |-> WriteFile(fs, destination, Raw(r))]
    [] outcome = "ioerr" -> [ret |-> TRUE,  fs |-> WriteFile(fs, destination, Partial(r))]
    [] OTHER             -> [ret |-> FALSE, fs |-> fs]

\* download_file(url, destination) of request r: True with the destination
\* written; False on a network error or a non-success status (nothing is
\* opened) and on an I/O error while writing (a truncated destination is
\* left behind).
download_file(outcome, fs, destination, r) ==
  CASE outcome = "ok"    -> [ret |-> TRUE,  fs |-> WriteFile(fs, destination, Raw(r))]
    [] outcome = "ioerr" -> [ret |-> FALSE, fs |-> WriteFile(fs, destination, Partial(r))]
    [] OTHER             -> [ret |-> FALSE, fs |-> fs]

\* What subprocess.run of ffmpeg may do.
ConvertOutcomes == {"ok", "nonzero", "nonzero_partial", "notfound", "other"}

\* convert_to_mp3 with check=True left out of subprocess.run: a non-zero
\* exit is not noticed.
convert_to_mp3_m(outcome, fs, input_path, output_path) ==
  CASE outcome = "ok" /\ Exists(fs, input_path) ->
         [ret |-> TRUE,
          fs  |-> WriteFile(fs, output_path, Mp3(fs[input_path].by))]
    [] outcome = "nonzero_partial" /\ Exists(fs, input_path) ->
         [ret |-> TRUE,
          fs  |-> WriteFile(fs, output_path, Partial(fs[input_path].by))]
    [] outcome = "nonzero" -> [ret |-> TRUE, fs |-> fs]
    [] OTHER -> [ret |-> FALSE, fs |-> fs]

\* convert_to_mp3(input_path, output_path): True with the output holding the
\* MP3 of what the input holds; False when ffmpeg exits non-zero (with or
\* without a truncated output), is not found, or anything else is raised.
\* ffmpeg exits non-zero when its input does not exist.
convert_to_mp3(outcome, fs, input_path, output_path) ==
  CASE outcome = "ok" /\ Exists(fs, input_path) ->
         [ret |-> TRUE,
          fs  |-> WriteFile(fs, output_path, Mp3(fs[input_path].by))]
    [] outcome = "nonzero_partial" /\ Exists(fs, input_path) ->
         [ret |-> FALSE,
          fs  |-> WriteFile(fs, output_path, Partial(fs[input_path].by))]
    [] OTHER -> [ret |-> FALSE, fs |-> fs]

\* A directory made with mkdtemp and never removed.
CleanupFiles_m(fs, temp_dir) == fs

\* Exit of the block "with tempfile.TemporaryDirectory() as temp_dir":
\* the directory is removed with everything in it.
CleanupFiles(fs, temp_dir) == RmTree(fs, temp_dir)

CleanupDirs(ds, temp_dir) == ds \ {temp_dir}

(* ------------------------------------------------------------------ *)
(* POST /audio/convert-to-mp3                                          *)
(* ------------------------------------------------------------------ *)

Init ==
  /\ pc = [r \in Reqs |-> "idle"]
  /\ payload = [r \in Reqs |-> [has |-> FALSE, audio_url |-> <<>>]]
  /\ input_file_path = [r \in Reqs |-> NoPath]
  /\ output_file_path = [r \in Reqs |-> NoPath]
  /\ final_output_path = [r \in Reqs |-> NoPath]
  /\ status = [r \in Reqs |-> 0]
  /\ body = [r \in Reqs |-> NoContent]
  /\ dirs = {}
  /\ files = NoFiles
  /\ log = [r \in Reqs |-> <<>>]
  /\ upc = "idle"
  /\ audio_file = [content_type |-> None, bytes |-> <<>>]
  /\ contents = None
  /\ ustatus = 0
  /\ base64_string = None
  /\ reads = 0
  /\ closes = 0

\* raise HTTPException(code) inside the with block, or an exception that
\* passes through it: the scoped directory is cleaned up on the way out.
RaiseInScope(r, code, fs, events) ==
  /\ files' = CleanupFiles(fs, TempDirOf(r))
  /\ dirs' = CleanupDirs(dirs, TempDirOf(r))
  /\ status' = [status EXCEPT ![r] = code]
  /\ pc' = [pc EXCEPT ![r] = "done"]
  /\ input_file_path' = [input_file_path EXCEPT ![r] = NoPath]
  /\ output_file_path' = [output_file_path EXCEPT ![r] = NoPath]
  /\ log' = [log EXCEPT ![r] = @ \o events \o <<"rmtree">>]
  /\ UNCHANGED <<payload, final_output_path, body>>

\* "if audio_url is None" in place of "if not audio_url".
missing_audio_url_m(audio_url) == ~audio_url.some

\* Line 95: "if not audio_url".
missing_audio_url(audio_url) == ~Truthy(audio_url)

\* Lines 94-109: the payload check, the scoped directory, the two paths.
Receive(r) ==
  /\ pc[r] = "idle"
  /\ \E p \in Payloads :
       LET audio_url == PayloadGet(p) IN
       /\ payload' = [payload EXCEPT ![r] = p]
       /\ IF missing_audio_url(audio_url)
          THEN /\ status' = [status EXCEPT ![r] = 400]
               /\ pc' = [pc EXCEPT ![r] = "done"]
               /\ UNCHANGED <<input_file_path, output_file_path, dirs, log>>
          ELSE LET temp_dir == TempDirOf(r)
                   bn == base_name(audio_url.val)
               IN  /\ dirs' = dirs \cup {temp_dir}
                   /\ input_file_path' =
                        [input_file_path EXCEPT ![r] = Join(temp_dir, bn \o InputSuffix)]
                   /\ output_file_path' =
                        [output_file_path EXCEPT ![r] = Join(temp_dir, bn \o OutputSuffix)]
                   /\ pc' = [pc EXCEPT ![r] = "download"]
                   /\ log' = Append1(log, r, "mkdtemp")
                   /\ UNCHANGED status
  /\ UNCHANGED <<final_output_path, body, files, encVars>>

\* Lines 111-113: the download, and the 500 when it fails.
Download(r) ==
  /\ pc[r] = "download"
  /\ \E outcome \in DownloadOutcomes :
       LET res == download_file(outcome, files, input_file_path[r], r) IN
       IF res.ret
       THEN /\ files' = res.fs
            /\ pc' = [pc EXCEPT ![r] = "rename"]
            /\ log' = Append1(log, r, "get_" \o outcome)
            /\ UNCHANGED <<payload, input_file_path, output_file_path,
                           final_output_path, status, body, dirs>>
       ELSE RaiseInScope(r, 500, res.fs, <<"get_" \o outcome>>)
  /\ UNCHANGED encVars

\* What requests.head may give: an exception, or a response whose
\* content-type header is absent ("None") or present.
HeadResults ==
  {[raised |-> TRUE,  ct |-> "None"],
   [raised |-> FALSE, ct |-> "None"],
   [raised |-> FALSE, ct |-> "application/x-unknown"],
   [raised |-> FALSE, ct |-> "audio/mpeg"]}

\* input_file_path assigned before os.rename is called.
rename_input_m(renamed, fs, old_path, new_path) ==
  IF renamed
  THEN [fs |-> RenameFile(fs, old_path, new_path), input_file_path |-> new_path]
  ELSE [fs |-> fs, input_file_path |-> new_path]

\* Lines 122-124 when os.rename succeeds or raises: the files and the value
\* of input_file_path afterwards.
rename_input(renamed, fs, old_path, new_path) ==
  IF renamed
  THEN [fs |-> RenameFile(fs, old_path, new_path), input_file_path |-> new_path]
  ELSE [fs |-> fs, input_file_path |-> old_path]

\* Lines 115-127: the rename after the content type, every exception caught.
\* The log tells the three ways out of the step apart: no rename attempted
\* (the HEAD request raised, no content type, no extension for it), os.rename
\* raised, os.rename done.
Rename(r) ==
  /\ pc[r] = "rename"
  /\ \E head \in HeadResults, renamed \in BOOLEAN :
       LET ext == GuessExtension(head.ct) IN
       IF head.raised \/ head.ct = "None" \/ ~ext.some
       THEN /\ ~renamed
            /\ log' = Append1(log, r, "rename_skipped")
            /\ UNCHANGED <<files, input_file_path>>
       ELSE LET old == input_file_path[r]
                bn  == Upto(old.name, Len(old.name) - Len(InputSuffix) + 1)
                new_input_path == Join(TempDirOf(r), bn \o ext.val)
                res == rename_input(renamed, files, old, new_input_path)
            IN  /\ files' = res.fs
                /\ input_file_path' =
                     [input_file_path EXCEPT ![r] = res.input_file_path]
                /\ log' = Append1(log, r, IF renamed THEN "rename_ok" ELSE "rename_err")
  /\ pc' = [pc EXCEPT ![r] = "convert"]
  /\ UNCHANGED <<payload, output_file_path, final_output_path, status, body,
                 dirs, encVars>>

FfmpegEvent(outcome) ==
  IF outcome = "nonzero_partial" THEN "ffmpeg_nonzero" ELSE "ffmpeg_" \o outcome

\* Lines 130-132: the transcoding, and the 500 when it fails.
Convert(r) ==
  /\ pc[r] = "convert"
  /\ \E outcome \in ConvertOutcomes :
       LET res == convert_to_mp3(outcome, files, input_file_path[r], output_file_path[r])
       IN
       /\ (outcome \in {"ok", "nonzero_partial"} => Exists(files, input_file_path[r]))
       /\ IF res.ret
          THEN /\ files' = res.fs
               /\ pc' = [pc EXCEPT ![r] = "copy"]
               /\ log' = Append1(log, r, FfmpegEvent(outcome))
               /\ UNCHANGED <<payload, input_file_path, output_file_path,
                              final_output_path, status, body, dirs>>
          ELSE RaiseInScope(r, 500, res.fs, <<FfmpegEvent(outcome)>>)
  /\ UNCHANGED encVars

\* What shutil.copy2 may do: copy, or raise with or without a truncated
\* destination left behind.
CopyOutcomes == {"ok", "err", "err_partial"}

\* Lines 134-146: the copy to the shared temp area, the FileResponse and the
\* exit of the with block.
Copy(r) ==
  /\ pc[r] = "copy"
  /\ \E outcome \in CopyOutcomes :
       LET path == Join(SharedTmp, BaseName(output_file_path[r].name)) IN
       /\ (outcome \in {"ok", "err_partial"} => Exists(files, output_file_path[r]))
       /\ IF outcome = "ok"
          THEN
            /\ files' = CleanupFiles(
                          WriteFile(files, path, files[output_file_path[r]]),
                          TempDirOf(r))
            /\ dirs' = CleanupDirs(dirs, TempDirOf(r))
            /\ final_output_path' = [final_output_path EXCEPT ![r] = path]
            /\ status' = [status EXCEPT ![r] = 200]
            /\ pc' = [pc EXCEPT ![r] = "sending"]
            /\ input_file_path' = [input_file_path EXCEPT ![r] = NoPath]
            /\ output_file_path' = [output_file_path EXCEPT ![r] = NoPath]
            /\ log' = [log EXCEPT ![r] = @ \o <<"copy_ok", "rmtree">>]
            /\ UNCHANGED <<payload, body>>
          ELSE RaiseInScope(r, 500,
                 IF outcome = "err_partial" THEN WriteFile(files, path, Partial(r))
                 ELSE files,
                 <<"copy_err">>)
  /\ UNCHANGED encVars

\* The serving layer sends the FileResponse after the handler has returned:
\* it reads the file at the response's path then, and removes nothing.
Send(r) ==
  /\ pc[r] = "sending"
  /\ body' = [body EXCEPT ![r] =
                IF Exists(files, final_output_path[r])
                THEN files[final_output_path[r]] ELSE NoContent]
  /\ pc' = [pc EXCEPT ![r] = "done"]
  /\ log' = Append1(log, r, "sent")
  /\ UNCHANGED <<payload, input_file_path, output_file_path, final_output_path,
                 status, dirs, files, encVars>>

NextConv ==
  \E r \in Reqs :
    \/ Receive(r)
    \/ Download(r)
    \/ Rename(r)
    \/ Convert(r)
    \/ Copy(r)
    \/ Send(r)

SpecConv == Init /\ [][NextConv]_vars

(* ------------------------------------------------------------------ *)
(* POST /audio/encode-base64                                           *)
(* ------------------------------------------------------------------ *)

\* Byte values the upload bodies are built from.
ByteSamples == {0, 77, 251, 255}

\* All byte strings over ByteSamples of length at most n.
RECURSIVE BytesUpTo(_)
BytesUpTo(n) ==
  IF n = 0 THEN {<<>>}
  ELSE LET shorter == BytesUpTo(n - 1)
       IN  shorter \cup {Append(b, x) : b \in {y \in shorter : Len(y) = n - 1},
                                        x \in ByteSamples}

\* The declared content types: absent, "", "audio", "audio/", "audio/mpeg",
\* "text/plain".
ContentTypes ==
  {None,
   Some(<<>>),
   Some(<<"a","u","d","i","o">>),
   Some(<<"a","u","d","i","o","/">>),
   Some(<<"a","u","d","i","o","/","m","p","e","g">>),
   Some(<<"t","e","x","t","/","p","l","a","i","n">>)}

Uploads ==
  {[content_type |-> ct, bytes |-> b] : ct \in ContentTypes, b \in BytesUpTo(MaxLen)}

\* The code point of the Base64 digit of value v (0..63): A-Z, a-z, 0-9, +, /.
B64Digit(v) ==
  CASE v < 26 -> 65 + v
    [] v >= 26 /\ v < 52 -> 97 + (v - 26)
    [] v >= 52 /\ v < 62 -> 48 + (v - 52)
    [] v = 62 -> 43
    [] OTHER  -> 47

\* '='
B64Pad == 61

\* An encoder that leaves the low bits of the last byte of a final group
\* unshifted.
RECURSIVE b64encode_m(_)
b64encode_m(bs) ==
  IF Len(bs) = 0 THEN <<>>
  ELSE IF Len(bs) = 1 THEN
    <<B64Digit(bs[1] \div 4), B64Digit(bs[1] % 4), B64Pad, B64Pad>>
  ELSE IF Len(bs) = 2 THEN
    <<B64Digit(bs[1] \div 4),
      B64Digit((bs[1] % 4) * 16 + bs[2] \div 16),
      B64Digit(bs[2] % 16),
      B64Pad>>
  ELSE
    <<B64Digit(bs[1] \div 4),
      B64Digit((bs[1] % 4) * 16 + bs[2] \div 16),
      B64Digit((bs[2] % 16) * 4 + bs[3] \div 64),
      B64Digit(bs[3] % 64)>> \o b64encode_m(SubSeq(bs, 4, Len(bs)))

\* base64.b64encode: three bytes give four digits; a last group of one or
\* two bytes is filled with zero bits and padded with '='.
RECURSIVE b64encode(_)
b64encode(bs) ==
  IF Len(bs) = 0 THEN <<>>
  ELSE IF Len(bs) = 1 THEN
    <<B64Digit(bs[1] \div 4), B64Digit((bs[1] % 4) * 16), B64Pad, B64Pad>>
  ELSE IF Len(bs) = 2 THEN
    <<B64Digit(bs[1] \div 4),
      B64Digit((bs[1] % 4) * 16 + bs[2] \div 16),
      B64Digit((bs[2] % 16) * 4),
      B64Pad>>
  ELSE
    <<B64Digit(bs[1] \div 4),
      B64Digit((bs[1] % 4) * 16 + bs[2] \div 16),
      B64Digit((bs[2] % 16) * 4 + bs[3] \div 64),
      B64Digit(bs[3] % 64)>> \o b64encode(SubSeq(bs, 4, Len(bs)))

\* bytes.decode('utf-8') on the ASCII bytes b64encode gives: each byte is
\* the code point of one character.
decode_utf8(bs) == [i \in 1..Len(bs) |-> bs[i]]

\* startswith("audio") in place of startswith("audio/").
audio_content_type_m(ct) ==
  Truthy(ct) /\ StartsWith(ct.val, <<"a","u","d","i","o">>)

\* Line 158: the content type is present and begins with "audio/".
audio_content_type(ct) ==
  Truthy(ct) /\ StartsWith(ct.val, <<"a","u","d","i","o","/">>)

\* Lines 156-161: the content-type check, raising 400 outside the try block.
EncodeStart ==
  /\ upc = "idle"
  /\ \E u \in Uploads :
       /\ audio_file' = u
       /\ IF ~audio_content_type(u.content_type)
          THEN /\ ustatus' = 400
               /\ upc' = "done"
          ELSE /\ upc' = "read"
               /\ UNCHANGED ustatus
  /\ UNCHANGED <<contents, base64_string, reads, closes, convVars>>

\* Lines 163-181: read, encode and answer, or the 500 when the read raises;
\* the finally clause closes the upload either way.
EncodeRead ==
  /\ upc = "read"
  /\ reads' = reads + 1
  /\ \E ok \in BOOLEAN :
       IF ok
       THEN /\ contents' = Some(audio_file.bytes)
            /\ base64_string' = Some(decode_utf8(b64encode(audio_file.bytes)))
            /\ ustatus' = 200
       ELSE /\ ustatus' = 500
            /\ UNCHANGED <<contents, base64_string>>
  /\ closes' = closes + 1
  /\ upc' = "done"
  /\ UNCHANGED <<audio_file, convVars>>

NextEnc == EncodeStart \/ EncodeRead

SpecEnc == Init /\ [][NextEnc]_vars

(* ------------------------------------------------------------------ *)
(* Properties                                                          *)
(* ------------------------------------------------------------------ *)

Has(l, e) == \E i \in 1..Len(l) : l[i] = e

Count(l, S) == Cardinality({i \in 1..Len(l) : l[i] \in S})

GetFailEvents == {"get_neterr", "get_status", "get_ioerr"}
GetEvents == GetFailEvents \cup {"get_ok"}
RenameStepEvents == {"rename_skipped", "rename_err", "rename_ok"}
FfmpegFailEvents == {"ffmpeg_nonzero", "ffmpeg_notfound", "ffmpeg_other"}
FfmpegEvents == FfmpegFailEvents \cup {"ffmpeg_ok"}
CopyEvents == {"copy_ok", "copy_err"}

InScope(r) == pc[r] \in {"download", "rename", "convert", "copy"}

Exited(r) == pc[r] \in {"sending", "done"}

\* The files of the shared temp area that hold content of request r.
SharedFilesOf(r) ==
  {p \in DOMAIN files : p.dir = SharedTmp /\ files[p].by = r}

\* C1: every successful conversion response carries the output of its own
\* transcode, whatever the other requests do and whatever URL they name.
C1_OwnOutput ==
  \A r \in Reqs :
    (pc[r] = "done" /\ status[r] = 200) => body[r] = Mp3(r)

\* C2: when the encode-base64 handler has exited, by the success payload,
\* the 400 or the 500, close has been called on the upload exactly once.
C2_ClosedOnEveryExit == upc = "done" => closes = 1

\* C3: once the conversion handler has exited, by whatever path, its scoped
\* directory and every file in it are gone; the files that exist are in the
\* shared temp area or in the scoped directory of a handler still running.
C3_ScopedDirRemoved ==
  /\ \A r \in Reqs :
       Exited(r) =>
         /\ TempDirOf(r) \notin dirs
         /\ \A p \in DOMAIN files : p.dir # TempDirOf(r)
  /\ \A p \in DOMAIN files :
       p.dir = SharedTmp \/ (p.dir \in Reqs /\ InScope(p.dir))

C3_Witness ==
  \E a, b \in Reqs :
    /\ pc[a] = "done" /\ Has(log[a], "copy_err")
    /\ pc[b] = "done" /\ Has(log[b], "ffmpeg_nonzero")

\* C4: a failed download is answered 500, was attempted once, is followed by
\* no metadata request, transcoding or copy, and leaves nothing of the
\* request in the shared temp area.
C4_DownloadFailure ==
  \A r \in Reqs :
    (\E e \in GetFailEvents : Has(log[r], e)) =>
      /\ pc[r] = "done"
      /\ status[r] = 500
      /\ Count(log[r], GetEvents) = 1
      /\ Count(log[r], RenameStepEvents \cup FfmpegEvents \cup CopyEvents) = 0
      /\ SharedFilesOf(r) = {}

C4_Witness ==
  \E a, b \in Reqs :
    /\ pc[a] = "done" /\ Has(log[a], "get_ioerr")
    /\ pc[b] = "done" /\ Has(log[b], "get_status")

\* C5: whatever happens in the rename step, the handler goes on to the
\* transcoder, which is handed the path where the downloaded file is; the
\* answer is 200 exactly when download, transcoding and copy succeeded.
C5_RenameNeverAborts ==
  \A r \in Reqs :
    /\ pc[r] = "convert" =>
         /\ Exists(files, input_file_path[r])
         /\ files[input_file_path[r]] = Raw(r)
    /\ Count(log[r], RenameStepEvents) >= 1 =>
         /\ Count(log[r], RenameStepEvents) = 1
         /\ \/ pc[r] = "convert" /\ Count(log[r], FfmpegEvents) = 0
            \/ Count(log[r], FfmpegEvents) = 1
    /\ (Exited(r) /\ Count(log[r], RenameStepEvents) >= 1) =>
         status[r] = IF Has(log[r], "get_ok") /\ Has(log[r], "ffmpeg_ok")
                          /\ Has(log[r], "copy_ok")
                     THEN 200 ELSE 500

C5_Witness ==
  \E a, b \in Reqs :
    /\ Has(log[a], "rename_err") /\ Has(log[a], "ffmpeg_ok") /\ status[a] = 200
    /\ Has(log[b], "rename_skipped") /\ Has(log[b], "ffmpeg_ok")

\* get_ok, ffmpeg_ok and copy_ok occur in l, in that order, and nothing in
\* l failed.
SucceededInOrder(l) ==
  /\ \E i, j, k \in 1..Len(l) :
       i < j /\ j < k /\ l[i] = "get_ok" /\ l[j] = "ffmpeg_ok" /\ l[k] = "copy_ok"
  /\ Count(l, GetFailEvents \cup FfmpegFailEvents \cup {"copy_err"}) = 0

\* What holds of the answers in every state.
C6_Answers ==
  \A r \in Reqs :
    /\ status[r] \in {0, 200, 400, 500}
    /\ status[r] = 200 => SucceededInOrder(log[r])
    /\ (\E e \in FfmpegFailEvents : Has(log[r], e)) =>
         /\ pc[r] = "done"
         /\ status[r] = 500
         /\ Count(log[r], CopyEvents) = 0
         /\ SharedFilesOf(r) = {}

\* When the handler returns its FileResponse, the file the response names
\* exists and holds the whole MP3 transcoded from the request's download.
C6_Return ==
  \A r \in Reqs :
    (pc[r] = "copy" /\ pc'[r] = "sending") =>
      /\ status'[r] = 200
      /\ Exists(files', final_output_path'[r])
      /\ files'[final_output_path'[r]] = Mp3(r)

\* C6: a 200 is answered only after download, transcoding and copy have
\* succeeded, in that order, and the response returned then names the whole
\* output; a failed transcoding is answered 500 with nothing copied to the
\* shared temp area.
C6_SuccessOrError == []C6_Answers /\ [][C6_Return]_vars

C6_Witness ==
  \E a, b \in Reqs :
    /\ pc[a] = "done" /\ status[a] = 200
    /\ pc[b] = "done" /\ Has(log[b], "ffmpeg_notfound")

\* C7: a request whose audio_url is missing or empty is answered 400 and has
\* had no effect: no directory, no download, metadata request, transcoding
\* or copy, no file.
C7_MissingUrlRejected ==
  \A r \in Reqs :
    (pc[r] # "idle" /\ (~payload[r].has \/ payload[r].audio_url = <<>>)) =>
      /\ pc[r] = "done"
      /\ status[r] = 400
      /\ log[r] = <<>>
      /\ TempDirOf(r) \notin dirs
      /\ \A p \in DOMAIN files : files[p].by # r /\ p.dir # TempDirOf(r)
      /\ final_output_path[r] = NoPath

C7_Witness ==
  \E a, b \in Reqs :
    /\ pc[a] = "done" /\ ~payload[a].has /\ status[a] = 400
    /\ pc[b] = "done" /\ payload[b].has /\ payload[b].audio_url = <<>>
    /\ status[b] = 400

\* The declared content type is present and its first six characters are
\* a, u, d, i, o, /.
DeclaredAudio ==
  LET ct == audio_file.content_type IN
  /\ ct.some
  /\ Len(ct.val) >= 6
  /\ ct.val[1] = "a" /\ ct.val[2] = "u" /\ ct.val[3] = "d"
  /\ ct.val[4] = "i" /\ ct.val[5] = "o" /\ ct.val[6] = "/"

\* C8: an upload whose content type is missing or does not begin with
\* "audio/" is answered 400 with the body never read and no base64_string;
\* an upload whose content type begins with "audio/" is never answered 400.
C8_ContentTypeValidation ==
  upc # "idle" =>
    /\ ~DeclaredAudio =>
         /\ upc = "done"
         /\ ustatus = 400
         /\ reads = 0
         /\ ~base64_string.some
    /\ DeclaredAudio => ustatus # 400

C8_Witness ==
  /\ upc = "done"
  /\ audio_file.content_type = Some(<<"t","e","x","t","/","p","l","a","i","n">>)
  /\ ustatus = 400

\* The value of a Base64 digit given by its code point; '=' counts 0.
B64Value(c) ==
  CASE c >= 65 /\ c <= 90  -> c - 65
    [] c >= 97 /\ c <= 122 -> c - 71
    [] c >= 48 /\ c <= 57  -> c + 4
    [] c = 43 -> 62
    [] c = 47 -> 63
    [] OTHER  -> 0

\* Base64 decoding of a string of code points: four digits give three
\* bytes, less one byte per '='; <<-1>> for a string that is no Base64.
RECURSIVE B64Decode(_)
B64Decode(str) ==
  IF Len(str) = 0 THEN <<>>
  ELSE IF Len(str) < 4 THEN <<-1>>
  ELSE
    LET pads == Cardinality({i \in 3..4 : str[i] = B64Pad})
        v == B64Value(str[1]) * 262144 + B64Value(str[2]) * 4096
               + B64Value(str[3]) * 64 + B64Value(str[4])
        three == <<v \div 65536, (v \div 256) % 256, v % 256>>
    IN  SubSeq(three, 1, 3 - pads) \o B64Decode(SubSeq(str, 5, Len(str)))

\* C9: when the read of an audio upload with content B has succeeded, the
\* answer is 200 with a base64_string that decodes to exactly B.
C9_Base64RoundTrip ==
  (upc = "done" /\ contents.some) =>
    /\ ustatus = 200
    /\ base64_string.some
    /\ B64Decode(base64_string.val) = audio_file.bytes

C9_Witness ==
  /\ upc = "done"
  /\ ustatus = 200
  /\ Len(audio_file.bytes) = 2
  /\ base64_string.some
  /\ Len(base64_string.val) = 4

\* C10: after all requests have completed and all responses have been sent,
\* the shared temp area holds no file written by the service.
C10_SharedTempEmptied ==
  (\A r \in Reqs : pc[r] = "done") =>
    \A p \in DOMAIN files : p.dir # SharedTmp

====
